---- MODULE Spec2Model ----
(***************************************************************************)
(* Model of the Veris summarizing client, the React component App of       *)
(* src/unnamed/part_000: its ten state cells, its three handlers           *)
(* (handleFileChange, handleUpload, handleSummarize), the jurisdiction     *)
(* selector, the requests in flight to /api/upload and /api/summarize and  *)
(* the parts of the rendered view that depend on the state.                *)
(*                                                                         *)
(* An async handler is two steps: the synchronous part up to the await of  *)
(* fetch (one action), and the continuation that runs when the request     *)
(* settles (one action per request in flight).  The server is not part of  *)
(* the repository's sources: a response is an input, drawn from the sets   *)
(* below.                                                                  *)
(***************************************************************************)
EXTENDS Integers, Sequences, FiniteSets, Bags, TLC

VARIABLES
    file,          \* useState(null)           part_000:7
    text,          \* useState("")             part_000:8
    meta,          \* useState(null)           part_000:9
    loading,       \* useState(false)          part_000:10
    error,         \* useState("")             part_000:11
    jurisdiction,  \* useState("General")      part_000:14
    sumLoading,    \* useState(false)          part_000:15
    summary,       \* useState("")             part_000:16
    clauses,       \* useState([])             part_000:17
    sumError,      \* useState("")             part_000:18
    uploads,       \* bag of the /api/upload requests sent and not yet settled,
                   \* each with the history flag stale: sent before the last
                   \* file selection
    sumReqs,       \* bag of the /api/summarize requests sent and not yet settled
    ev,            \* history: the last event handled, with its input
    chosen,        \* history: the value last chosen in the jurisdiction selector
    applied        \* history: the ok upload response last applied to the state

vars == <<file, text, meta, loading, error, jurisdiction, sumLoading,
          summary, clauses, sumError, uploads, sumReqs, ev, chosen, applied>>

----------------------------------------------------------------------------
(* Bounds of the model. *)

MaxUploads == 2     \* upload requests in flight at once
MaxClauses == 2     \* length of a clauses array in a response

----------------------------------------------------------------------------
(* JavaScript values.  Every value carries its kind, so that null,         *)
(* undefined and values of the wrong type can reach the state when the     *)
(* code lets them.  A text is a sequence of one-character strings.         *)

TStr(s) == [kind |-> "str", s |-> s]
TUndefined == [kind |-> "undefined", s |-> <<>>]

SStr(s) == [kind |-> "str", s |-> s]
SUndefined == [kind |-> "undefined", s |-> ""]

Num(n) == [kind |-> "num", n |-> n]
NullPages == [kind |-> "null", n |-> 0]
UndefinedPages == [kind |-> "undefined", n |-> 0]

NullFile == [kind |-> "null", name |-> ""]
UndefinedFile == [kind |-> "undefined", name |-> ""]
FileObj(n) == [kind |-> "file", name |-> n]

NullMeta == [kind |-> "null", filename |-> "", filetype |-> "", pages |-> NullPages]
MetaObj(fn, ft, p) == [kind |-> "object", filename |-> fn, filetype |-> ft, pages |-> p]

Array(items) == [kind |-> "array", items |-> items]
EmptyArray == Array(<<>>)
NullClauses == [kind |-> "null", items |-> <<>>]
UndefinedClauses == [kind |-> "undefined", items |-> <<>>]
ObjectClauses == [kind |-> "object", items |-> <<>>]

\* !v for a string-or-undefined value: undefined and "" are falsy
FalsyText(v) == v.kind # "str" \/ v.s = <<>>
FalsyString(v) == v.kind # "str" \/ v.s = ""

\* Array.isArray
IsArray(v) == v.kind = "array"

IsSpace(c) == c = " "

\* String.prototype.trim: whitespace removed from both ends
RECURSIVE TrimStart(_)
TrimStart(s) ==
    IF s # <<>> /\ IsSpace(Head(s)) THEN TrimStart(Tail(s)) ELSE s

RECURSIVE TrimEnd(_)
TrimEnd(s) ==
    IF s # <<>> /\ IsSpace(s[Len(s)]) THEN TrimEnd(SubSeq(s, 1, Len(s) - 1)) ELSE s

Trim(s) == TrimEnd(TrimStart(s))

----------------------------------------------------------------------------
(* Inputs. *)

\* what e.target.files[0] can be: a file, or undefined when the list is empty
Selections == {FileObj("a.pdf"), FileObj("b.docx"), UndefinedFile}

\* the options of the jurisdiction selector (two of the six)
Jurisdictions == {"General", "Nepal"}

Texts == {<<>>, <<" ">>, <<"a">>, <<" ", "b">>}
TextFields == {TStr(s) : s \in Texts} \cup {TUndefined}
PagesFields == {Num(0), Num(2), NullPages, UndefinedPages}
Named == {[filename |-> "a.pdf", filetype |-> "pdf"],
          [filename |-> "b.docx", filetype |-> "docx"]}
Statuses == {400, 500}
DetailFields == {SStr("Unsupported file type"), SStr(""), SUndefined}

\* the body of a non-ok response: a JSON object, or not parseable as JSON
ErrorBodies == {[json |-> TRUE, detail |-> d] : d \in DetailFields}
                 \cup {[json |-> FALSE, detail |-> SUndefined]}

ErrorResponses == {[kind |-> "error", status |-> st, body |-> b] :
                      st \in Statuses, b \in ErrorBodies}
NetworkFailures == {[kind |-> "network", message |-> "Failed to fetch"]}

UploadOkResponses ==
    {[kind |-> "ok", filename |-> nm.filename, filetype |-> nm.filetype,
      pages |-> p, text |-> t] : nm \in Named, p \in PagesFields, t \in TextFields}

\* every shape of upload response: each metadata, with the text absent, empty
\* or present, and each failure
UploadResponses ==
    {r \in UploadOkResponses : r.text \in {TUndefined, TStr(<<>>), TStr(<<"a">>)}}
      \cup ErrorResponses \cup NetworkFailures

\* a few upload responses: one of each text, one failure
UploadResponsesFew ==
    {r \in UploadOkResponses : r.filetype = "pdf" /\ r.pages = Num(2) /\ r.text.kind = "str"}
      \cup {r \in ErrorResponses : r.status = 500 /\ ~r.body.json}

ClauseRecords == {[type |-> SStr("Termination"), snippet |-> SStr("30 days notice")],
                  [type |-> SUndefined, snippet |-> SStr("30 days notice")],
                  [type |-> SStr("Liability"), snippet |-> SUndefined]}

SeqsUpTo(S, n) == UNION {[1..k -> S] : k \in 0..n}

ClausesFields == {Array(a) : a \in SeqsUpTo(ClauseRecords, MaxClauses)}
                   \cup {NullClauses, UndefinedClauses, ObjectClauses}
SummaryFields == {SStr("Plain summary"), SStr(""), SUndefined}

SummarizeOkResponses ==
    {[kind |-> "ok", summary |-> s, clauses |-> c] :
        s \in SummaryFields, c \in ClausesFields}

SummarizeResponses == SummarizeOkResponses \cup ErrorResponses \cup NetworkFailures

\* a few summarize responses: one success, one failure
SummarizeResponsesFew ==
    {r \in SummarizeOkResponses :
        r.summary = SStr("Plain summary") /\ r.clauses.kind = "array" /\ Len(r.clauses.items) = 1
        /\ r.clauses.items[1].type.kind = "str" /\ r.clauses.items[1].snippet.kind = "str"}
      \cup {r \in ErrorResponses : r.status = 500 /\ ~r.body.json}

----------------------------------------------------------------------------
(* Helpers of the handlers, one per expression of the source. *)

SelectFileFirst == "Please select a file first."
NoTextAvailable == "No text available. Please upload a document first."

\* variant: if (file === null)
NoFileSelected_nullOnly(f) == f.kind = "null"

\* if (!file)
NoFileSelected(f) == f.kind # "file"

\* variant: if (!text)
NoTextToSummarize_untrimmed(t) == t.s = <<>>

\* if (!text.trim())
NoTextToSummarize(t) == Trim(t.s) = <<>>

\* { filename: data.filename, filetype: data.filetype, pages: data.pages }
MetaOf(data) == MetaObj(data.filename, data.filetype, data.pages)

\* variant: data.text, as src/frontend/src/App.jsx:45 has it
TextOf_raw(data) == data.text

\* data.text || ""
TextOf(data) == IF FalsyText(data.text) THEN TStr(<<>>) ELSE data.text

\* data.summary || ""
SummaryOf(data) == IF FalsyString(data.summary) THEN "" ELSE data.summary.s

\* variant: data.clauses, without the Array.isArray test
ClausesOf_unchecked(data) == data.clauses

\* variant: the entries with a missing type or snippet are dropped
ClausesOf_dropMalformed(data) ==
    IF IsArray(data.clauses)
    THEN Array(SelectSeq(data.clauses.items,
                         LAMBDA c : c.type.kind = "str" /\ c.snippet.kind = "str"))
    ELSE EmptyArray

\* Array.isArray(data.clauses) ? data.clauses : []
ClausesOf(data) == IF IsArray(data.clauses) THEN data.clauses ELSE EmptyArray

\* await res.json().catch(() => ({}))
ErrDataOf(res) == IF res.body.json THEN res.body ELSE [json |-> TRUE, detail |-> SUndefined]

\* errData.detail || `<what> failed (${res.status})`
DetailOr(errData, what, status) ==
    IF FalsyString(errData.detail)
    THEN what \o " failed (" \o ToString(status) \o ")"
    ELSE errData.detail.s

\* variant: errData.detail || "Upload failed", as src/frontend/src/App.jsx:36 has it
UploadErrorMessage_noStatus(res) ==
    IF res.kind = "network" THEN res.message
    ELSE IF FalsyString(ErrDataOf(res).detail) THEN "Upload failed"
    ELSE ErrDataOf(res).detail.s

\* err.message in the catch of handleUpload, for a request that did not end ok
UploadErrorMessage(res) ==
    IF res.kind = "network" THEN res.message
    ELSE DetailOr(ErrDataOf(res), "Upload", res.status)

\* err.message in the catch of handleSummarize, for a request that did not end ok
SummarizeErrorMessage(res) ==
    IF res.kind = "network" THEN res.message
    ELSE DetailOr(ErrDataOf(res), "Summarize", res.status)

\* variant: the summary is not cleared when a request is sent
SummaryAtStart_kept(s) == s

\* setSummary("") and setClauses([]) before the request is sent
SummaryAtStart(s) == ""
ClausesAtStart(c) == EmptyArray

\* variant: the default jurisdiction is sent, not the chosen one
SummarizeBody_general(t, j) == [text |-> t, jurisdiction |-> "General"]

\* variant: JSON.stringify({ text: text.trim(), jurisdiction })
SummarizeBody_trimmed(t, j) == [text |-> TStr(Trim(t.s)), jurisdiction |-> j]

\* JSON.stringify({ text, jurisdiction })
SummarizeBody(t, j) == [text |-> t, jurisdiction |-> j]

\* formData.append("file", file)
UploadBody(f) == [file |-> f]

\* the request of fetch(`${API}/api/upload`), in flight
UploadRequest(f) == [file |-> UploadBody(f).file, stale |-> FALSE]

\* history: the requests in flight at a file selection were sent before it
MarkStale(b) ==
    [r \in {[file |-> q.file, stale |-> TRUE] : q \in BagToSet(b)} |->
        CopiesIn([file |-> r.file, stale |-> FALSE], b) + CopiesIn(r, b)]

\* variant: setLoading(false) at the end of the try block, not in finally
LoadingSettled_tryOnly(res, l) == IF res.kind = "ok" THEN FALSE ELSE l

\* finally { setLoading(false) }
LoadingSettled(res, l) == FALSE

\* finally { setSumLoading(false) }
SumLoadingSettled(res, l) == FALSE

----------------------------------------------------------------------------
(* The rendered view. *)

\* variant: disabled={!text}
SummarizeDisabled_textOnly == FalsyText(text)

\* disabled={sumLoading || !text}
SummarizeDisabled == sumLoading \/ FalsyText(text)

\* {meta && ( ... )}
MetaShown(m) == m.kind = "object"

\* variant: meta.filetype === "pdf" && meta.pages
PagesShown_truthy(m) ==
    m.kind = "object" /\ m.filetype = "pdf" /\ m.pages.kind = "num" /\ m.pages.n # 0

\* meta.filetype === "pdf" && meta.pages != null, inside {meta && ( ... )}
PagesShown(m) ==
    MetaShown(m) /\ m.filetype = "pdf" /\ m.pages.kind \notin {"null", "undefined"}

\* clauses.map((c, i) => <li key={i}><strong>{c.type}</strong>: {c.snippet}</li>)
ClauseItems(c) ==
    [i \in 1..Len(c.items) |->
        [key |-> i - 1, type |-> c.items[i].type, snippet |-> c.items[i].snippet]]

----------------------------------------------------------------------------
(* The state after construction. *)

Init ==
    /\ file = NullFile
    /\ text = TStr(<<>>)
    /\ meta = NullMeta
    /\ loading = FALSE
    /\ error = ""
    /\ jurisdiction = "General"
    /\ sumLoading = FALSE
    /\ summary = ""
    /\ clauses = EmptyArray
    /\ sumError = ""
    /\ uploads = EmptyBag
    /\ sumReqs = EmptyBag
    /\ ev = [name |-> "init"]
    /\ chosen = "General"
    /\ applied = [some |-> FALSE, sinceSelection |-> FALSE, fresh |-> FALSE,
                  text |-> TUndefined]

----------------------------------------------------------------------------
(* The handlers. *)

\* onChange of the file input
handleFileChange(f) ==
    /\ file' = f
    /\ text' = TStr(<<>>)
    /\ meta' = NullMeta
    /\ error' = ""
    /\ summary' = ""
    /\ clauses' = EmptyArray
    /\ sumError' = ""
    /\ ev' = [name |-> "handleFileChange"]
    /\ applied' = [applied EXCEPT !.sinceSelection = FALSE, !.fresh = FALSE]
    /\ uploads' = MarkStale(uploads)
    /\ UNCHANGED <<loading, jurisdiction, sumLoading, sumReqs, chosen>>

\* onChange of the jurisdiction selector
setJurisdiction(j) ==
    /\ jurisdiction' = j
    /\ chosen' = j
    /\ ev' = [name |-> "setJurisdiction"]
    /\ UNCHANGED <<file, text, meta, loading, error, sumLoading, summary,
                   clauses, sumError, uploads, sumReqs, applied>>

\* onClick of Upload, up to the await of fetch
handleUpload ==
    IF NoFileSelected(file)
    THEN /\ error' = SelectFileFirst
         /\ ev' = [name |-> "handleUpload", sent |-> FALSE]
         /\ UNCHANGED <<file, text, meta, loading, jurisdiction, sumLoading,
                        summary, clauses, sumError, uploads, sumReqs, chosen,
                        applied>>
    ELSE /\ BagCardinality(uploads) < MaxUploads
         /\ loading' = TRUE
         /\ error' = ""
         /\ summary' = ""
         /\ clauses' = EmptyArray
         /\ sumError' = ""
         /\ uploads' = uploads (+) SetToBag({UploadRequest(file)})
         /\ ev' = [name |-> "handleUpload", sent |-> TRUE, req |-> UploadBody(file)]
         /\ UNCHANGED <<file, text, meta, jurisdiction, sumLoading, sumReqs,
                        chosen, applied>>

\* handleUpload from the await of fetch on, for the request req settled by res
handleUploadSettled(req, res) ==
    /\ BagIn(req, uploads)
    /\ uploads' = uploads (-) SetToBag({req})
    /\ IF res.kind = "ok"
       THEN /\ meta' = MetaOf(res)
            /\ text' = TextOf(res)
            /\ applied' = [some |-> TRUE, sinceSelection |-> TRUE,
                            fresh |-> (applied.fresh \/ ~req.stale), text |-> res.text]
            /\ UNCHANGED error
       ELSE /\ error' = UploadErrorMessage(res)
            /\ UNCHANGED <<meta, text, applied>>
    /\ loading' = LoadingSettled(res, loading)
    /\ ev' = [name |-> "handleUploadSettled", res |-> res]
    /\ UNCHANGED <<file, jurisdiction, sumLoading, summary, clauses, sumError,
                   sumReqs, chosen>>

\* onClick of Summarize (the button is enabled), up to the await of fetch
handleSummarize ==
    /\ ~SummarizeDisabled
    /\ IF NoTextToSummarize(text)
       THEN /\ sumError' = NoTextAvailable
            /\ ev' = [name |-> "handleSummarize", sent |-> FALSE]
            /\ UNCHANGED <<sumLoading, summary, clauses, sumReqs>>
       ELSE /\ sumLoading' = TRUE
            /\ sumError' = ""
            /\ summary' = SummaryAtStart(summary)
            /\ clauses' = ClausesAtStart(clauses)
            /\ sumReqs' = sumReqs (+) SetToBag({SummarizeBody(text, jurisdiction)})
            /\ ev' = [name |-> "handleSummarize", sent |-> TRUE,
                      req |-> SummarizeBody(text, jurisdiction)]
    /\ UNCHANGED <<file, text, meta, loading, error, jurisdiction, uploads,
                   chosen, applied>>

\* handleSummarize from the await of fetch on, for the request req settled by res
handleSummarizeSettled(req, res) ==
    /\ BagIn(req, sumReqs)
    /\ sumReqs' = sumReqs (-) SetToBag({req})
    /\ IF res.kind = "ok"
       THEN /\ summary' = SummaryOf(res)
            /\ clauses' = ClausesOf(res)
            /\ UNCHANGED sumError
       ELSE /\ sumError' = SummarizeErrorMessage(res)
            /\ UNCHANGED <<summary, clauses>>
    /\ sumLoading' = SumLoadingSettled(res, sumLoading)
    /\ ev' = [name |-> "handleSummarizeSettled", res |-> res,
              current |-> (req.text = text)]
    /\ UNCHANGED <<file, text, meta, loading, error, jurisdiction, uploads,
                   chosen, applied>>

\* the events of the client, with the responses drawn from UR and SR
NextOver(UR, SR) ==
    \/ \E f \in Selections : handleFileChange(f)
    \/ \E j \in Jurisdictions : setJurisdiction(j)
    \/ handleUpload
    \/ \E req \in BagToSet(uploads) : \E res \in UR : handleUploadSettled(req, res)
    \/ handleSummarize
    \/ \E req \in BagToSet(sumReqs) : \E res \in SR : handleSummarizeSettled(req, res)

\* every summarize response, a few upload responses
Next == NextOver(UploadResponsesFew, SummarizeResponses)

Spec == Init /\ [][Next]_vars

\* every upload response, a few summarize responses
NextUpload == NextOver(UploadResponses, SummarizeResponsesFew)

SpecUpload == Init /\ [][NextUpload]_vars

\* a few responses of each kind, and every request in flight settles: the
\* continuation of a handler runs once its fetch has settled
NextLive == NextOver(UploadResponsesFew, SummarizeResponsesFew)

UploadSettles ==
    \E req \in BagToSet(uploads) : \E res \in UploadResponsesFew :
        handleUploadSettled(req, res)

SummarizeSettles ==
    \E req \in BagToSet(sumReqs) : \E res \in SummarizeResponsesFew :
        handleSummarizeSettled(req, res)

SpecLive ==
    Init /\ [][NextLive]_vars /\ WF_vars(UploadSettles) /\ WF_vars(SummarizeSettles)

----------------------------------------------------------------------------
(* Shorthands of the properties. *)

Sent(name) == ev.name = name /\ ev.sent
Rejected(name) == ev.name = name /\ ~ev.sent
SettledOk(name) == ev.name = name /\ ev.res.kind = "ok"
SettledFailed(name) == ev.name = name /\ ev.res.kind # "ok"

\* whitespace-only or empty
Blank(s) == \A i \in 1..Len(s) : s[i] = " "

----------------------------------------------------------------------------
(* C1: clauses is an array in every reachable state, whatever the clauses  *)
(* field of an ok summarize response is: an array, null, missing or a      *)
(* value that is no array.                                                 *)

C1_ClausesIsAnArray == clauses.kind = "array"

\* an ok response without an array of clauses was applied
C1_Witness ==
    /\ SettledOk("handleSummarizeSettled")
    /\ ev.res.clauses.kind = "null"
    /\ clauses = EmptyArray

----------------------------------------------------------------------------
(* C2: every request sent to /api/summarize carries a text that is not     *)
(* blank; handleSummarize run on a blank text sends nothing, sets sumError *)
(* to the "No text available" message and leaves sumLoading, summary and   *)
(* clauses as they were.                                                   *)

C2_BlankTextIsNeverSent ==
    [][ /\ \A r \in BagToSet(sumReqs') : ~Blank(r.text.s)
        /\ (ev'.name = "handleSummarize" /\ Blank(text.s)) =>
              /\ ~ev'.sent
              /\ sumReqs' = sumReqs
              /\ sumError' = NoTextAvailable
              /\ UNCHANGED <<sumLoading, summary, clauses>>
      ]_vars

\* Summarize was clicked on a whitespace-only text and rejected
C2_Witness ==
    /\ Rejected("handleSummarize")
    /\ text = TStr(<<" ">>)
    /\ sumError = NoTextAvailable

----------------------------------------------------------------------------
(* C3: every request sent to /api/upload carries a selected file;          *)
(* handleUpload run with no file selected sends nothing, sets error to     *)
(* "Please select a file first." and leaves loading, text, meta, summary,  *)
(* clauses and sumError as they were.                                      *)

C3_NoFileIsNeverUploaded ==
    [][ /\ \A r \in BagToSet(uploads') : r.file.kind = "file"
        /\ (ev'.name = "handleUpload" /\ file.kind \in {"null", "undefined"}) =>
              /\ ~ev'.sent
              /\ uploads' = uploads
              /\ error' = "Please select a file first."
              /\ UNCHANGED <<loading, text, meta, summary, clauses, sumError>>
      ]_vars

\* Upload was clicked after a file selection that yielded no file
C3_Witness ==
    /\ Rejected("handleUpload")
    /\ file = UndefinedFile
    /\ error = "Please select a file first."

----------------------------------------------------------------------------
(* C4: the jurisdiction of every summarize request is the value last       *)
(* chosen in the selector, "General" if none was; the jurisdiction state   *)
(* is that value after every event, so no file selection, upload or        *)
(* summarize event changes it.                                             *)

C4_JurisdictionIsTheChosenOne ==
    /\ jurisdiction = chosen
    /\ Sent("handleSummarize") => ev.req.jurisdiction = chosen

\* a request was sent after the user chose a jurisdiction other than the default
C4_Witness ==
    /\ Sent("handleSummarize")
    /\ ev.req.jurisdiction = "Nepal"
    /\ applied.sinceSelection

----------------------------------------------------------------------------
(* C5: a summarize request is sent only after an ok upload response was    *)
(* applied, and after the last file selection; its text is the text of the *)
(* upload response last applied.  Before any upload succeeds, and after a  *)
(* file selection not followed by one, Summarize is disabled.              *)

C5_SummarizeFollowsUpload ==
    /\ Sent("handleSummarize") =>
          /\ applied.some
          /\ applied.sinceSelection
          /\ ev.req.text = applied.text
    /\ ~applied.sinceSelection => SummarizeDisabled

\* a request was sent with a text that has whitespace around it
C5_Witness ==
    /\ Sent("handleSummarize")
    /\ ev.req.text = TStr(<<" ", "b">>)

----------------------------------------------------------------------------
(* C6: an ok upload response sets meta to its filename, filetype and pages *)
(* and text to its text, or to "" when the text is absent or empty; text   *)
(* is a string in every state.  With an empty text the handler leaves      *)
(* error as it was, the metadata is shown and Summarize is disabled.       *)

C6_OkUploadIsApplied ==
    [][ /\ text.kind = "str" /\ text'.kind = "str"
        /\ (ev'.name = "handleUploadSettled" /\ ev'.res.kind = "ok") =>
              /\ meta' = [kind |-> "object", filename |-> ev'.res.filename,
                          filetype |-> ev'.res.filetype, pages |-> ev'.res.pages]
              /\ text' = IF ev'.res.text.kind = "str" /\ Len(ev'.res.text.s) > 0
                         THEN ev'.res.text ELSE TStr(<<>>)
              /\ error' = error
              /\ Len(text'.s) = 0 => MetaShown(meta') /\ SummarizeDisabled'
      ]_vars

\* an ok response without a text field was applied
C6_Witness ==
    /\ SettledOk("handleUploadSettled")
    /\ ev.res.text = TUndefined
    /\ text = TStr(<<>>)
    /\ MetaShown(meta)
    /\ SummarizeDisabled
    /\ ~sumLoading

----------------------------------------------------------------------------
(* C7: an upload that ends in a non-ok response sets error to the body's   *)
(* detail when that is a non-empty string and to "Upload failed (status)"  *)
(* when the detail is missing or empty or the body is no JSON; a network   *)
(* failure sets error to the failure's message.  Each failure leaves text  *)
(* and meta as they were and sets loading to false.                        *)

C7_Expected(res) ==
    IF res.kind = "network" THEN res.message
    ELSE IF res.body.json /\ res.body.detail.kind = "str" /\ res.body.detail.s # ""
    THEN res.body.detail.s
    ELSE IF res.status = 400 THEN "Upload failed (400)" ELSE "Upload failed (500)"

C7_FailedUploadSetsError ==
    [][ (ev'.name = "handleUploadSettled" /\ ev'.res.kind # "ok") =>
              /\ error' = C7_Expected(ev'.res)
              /\ text' = text
              /\ meta' = meta
              /\ loading' = FALSE
      ]_vars

\* a non-ok response without a JSON body was applied while a text was held
C7_Witness ==
    /\ SettledFailed("handleUploadSettled")
    /\ ev.res.kind = "error"
    /\ ~ev.res.body.json
    /\ ev.res.status = 400
    /\ error = "Upload failed (400)"
    /\ MetaShown(meta)
    /\ text = TStr(<<"a">>)

----------------------------------------------------------------------------
(* C8: a summarize request that ends in a non-ok response or a network     *)
(* failure sets sumError to the detail, to "Summarize failed (status)" or  *)
(* to the failure's message, and right after it summary is "" and clauses  *)
(* is the empty array.                                                     *)

C8_Expected(res) ==
    IF res.kind = "network" THEN res.message
    ELSE IF res.body.json /\ res.body.detail.kind = "str" /\ res.body.detail.s # ""
    THEN res.body.detail.s
    ELSE IF res.status = 400 THEN "Summarize failed (400)" ELSE "Summarize failed (500)"

C8_FailedSummarizeShowsNothing ==
    SettledFailed("handleSummarizeSettled") =>
        /\ sumError = C8_Expected(ev.res)
        /\ summary = ""
        /\ clauses = EmptyArray

\* a non-ok response with an empty detail was applied
C8_Witness ==
    /\ SettledFailed("handleSummarizeSettled")
    /\ ev.res.kind = "error"
    /\ ev.res.body.json
    /\ ev.res.body.detail = SStr("")
    /\ sumError = "Summarize failed (500)"

----------------------------------------------------------------------------
(* C9: the page count is shown exactly when meta is set, its filetype is   *)
(* "pdf" and its pages is a number: never for a "docx" response, even one  *)
(* with pages, and also for a PDF of 0 pages.                              *)

C9_PagesShownForPdfOnly ==
    /\ PagesShown(meta) <=>
          (meta.kind = "object" /\ meta.filetype = "pdf" /\ meta.pages.kind = "num")
    /\ SettledOk("handleUploadSettled") =>
          /\ ev.res.filetype = "docx" => ~PagesShown(meta)
          /\ (ev.res.filetype = "pdf" /\ ev.res.pages = Num(0)) => PagesShown(meta)

\* a PDF response with pages 0 was applied
C9_Witness ==
    /\ SettledOk("handleUploadSettled")
    /\ ev.res.filetype = "pdf"
    /\ ev.res.pages = Num(0)
    /\ PagesShown(meta)

----------------------------------------------------------------------------
(* C10: an ok summarize response with an array of clauses leaves exactly   *)
(* its records in clauses and in the rendered list, in its order, the      *)
(* records without a type or a snippet included.                           *)

C10_ClausesKeptInOrder ==
    (SettledOk("handleSummarizeSettled") /\ ev.res.clauses.kind = "array") =>
        /\ clauses.kind = "array"
        /\ Len(clauses.items) = Len(ev.res.clauses.items)
        /\ \A i \in 1..Len(ev.res.clauses.items) :
              clauses.items[i] = ev.res.clauses.items[i]
        /\ Len(ClauseItems(clauses)) = Len(ev.res.clauses.items)
        /\ \A i \in 1..Len(ev.res.clauses.items) :
              /\ ClauseItems(clauses)[i].type = ev.res.clauses.items[i].type
              /\ ClauseItems(clauses)[i].snippet = ev.res.clauses.items[i].snippet

\* a response with two clauses, the first without a type, was applied
C10_Witness ==
    /\ SettledOk("handleSummarizeSettled")
    /\ ev.res.clauses.kind = "array"
    /\ Len(ev.res.clauses.items) = MaxClauses
    /\ ev.res.clauses.items[1].type = SUndefined
    /\ ev.res.clauses.items[2].snippet = SUndefined
    /\ Len(clauses.items) = MaxClauses

----------------------------------------------------------------------------
(* C11: loading is true exactly when an upload request is in flight, also  *)
(* when Upload is clicked while an earlier upload is in flight.            *)

C11_LoadingIffUploadInFlight == loading <=> BagCardinality(uploads) > 0

----------------------------------------------------------------------------
(* C12: after a file selection text and meta stay cleared until an upload  *)
(* sent after that selection succeeds; the response of an upload sent      *)
(* before the selection does not set them.                                 *)

C12_TextBelongsToSelectedFile ==
    ~applied.fresh => (text = TStr(<<>>) /\ meta = NullMeta)

----------------------------------------------------------------------------
(* C13: a summary or clauses held in state were produced from the text     *)
(* held in state; an ok summarize response whose request carried another   *)
(* text than the one now held sets neither.                                *)

C13_SummaryBelongsToText ==
    (SettledOk("handleSummarizeSettled") /\ ~ev.current) =>
        (summary = "" /\ clauses = EmptyArray)

----------------------------------------------------------------------------
(* C14: sumError is non-empty only if summary is "" and clauses is empty.  *)

C14_ErrorExcludesSummary ==
    sumError # "" => (summary = "" /\ clauses = EmptyArray)

----------------------------------------------------------------------------
(* C15: at most one summarize request is in flight, sumLoading is true     *)
(* exactly while it is, and Summarize is disabled meanwhile; file          *)
(* selections and uploads, sent or settled, leave sumLoading and the       *)
(* request as they are.                                                    *)

C15_OneSummarizeAtATime ==
    [][ /\ BagCardinality(sumReqs') <= 1
        /\ sumLoading' <=> BagCardinality(sumReqs') = 1
        /\ BagCardinality(sumReqs') = 1 => SummarizeDisabled'
        /\ ev'.name \in {"handleFileChange", "handleUpload", "handleUploadSettled"} =>
              (sumLoading' = sumLoading /\ sumReqs' = sumReqs)
      ]_vars

\* an upload was sent while a summarize request was in flight
C15_Witness ==
    /\ Sent("handleUpload")
    /\ sumLoading
    /\ BagCardinality(sumReqs) = 1

----------------------------------------------------------------------------
(* C16: when every request in flight settles, the client does not stay     *)
(* busy: with no upload in flight loading is false, with no summarize      *)
(* request in flight sumLoading is false and Summarize is enabled if text  *)
(* is non-empty, and loading and sumLoading, once true, become false.      *)

C16_NeverStaysBusy ==
    /\ [](BagCardinality(uploads) = 0 => ~loading)
    /\ [](BagCardinality(sumReqs) = 0 =>
             (~sumLoading /\ (Len(text.s) > 0 => ~SummarizeDisabled)))
    /\ loading ~> ~loading
    /\ sumLoading ~> ~sumLoading

\* the last request in flight failed and the client is idle, Summarize enabled
C16_Witness ==
    /\ SettledFailed("handleUploadSettled")
    /\ BagCardinality(uploads) = 0
    /\ BagCardinality(sumReqs) = 0
    /\ ~loading
    /\ ~sumLoading
    /\ sumError # ""
    /\ ~SummarizeDisabled

====
